---- MODULE Spec2Model ----
(***************************************************************************)
(* A model of diffenator/shape.py: the word corpus builder (build_words,   *)
(* remove_substring_words), the pixel difference metric (px_diff), the     *)
(* glyph coverage differ (test_font_glyphs) and the word shaping           *)
(* regression detector (test_font_words, test_words).                      *)
(*                                                                         *)
(* Strings are sequences of characters; a character is a one-letter        *)
(* string in the corpus builder and a codepoint number in the detector.    *)
(* Four specifications share  the variables: SpecWords runs build_words,   *)
(* SpecPx runs px_diff on explicit images, SpecFonts runs test_fonts or    *)
(* test_words, SpecWordDiffSet adds two WordDiff values to a set.  Each    *)
(* leaves the other components' variables untouched.                       *)
(***************************************************************************)
EXTENDS Integers, Sequences, FiniteSets, TLC

VARIABLES
    \* ---- build_words ----
    bw_pc,              \* position in build_words
    fps,                \* the whitespace-delimited tokens of the text sources, in reading order
    allowed_chars,      \* the set the caller passed (its value at call time)
    keep_chars,         \* the caller's set object, as build_words mutates it
    bw_i,               \* number of tokens read so far
    bank,               \* retained words
    seen_keep_chars,    \* characters seen in retained words
    unseen_keep_chars,  \* the reported unseen subset
    unseen_count,       \* the reported unseen count
    reported_total,     \* the reported len(keep_chars)
    bw_res              \* the set of words written to the output file

VARIABLES
    \* ---- px_diff ----
    px_pc,              \* position in px_diff
    img_a, img_b,       \* the two rendered images: [width, height, mode, px]
    px_k,               \* number of pixels visited so far
    diff_pixel,         \* the local diff_pixel: <<>> while unbound, <<v>> once assigned
    diff_pixels,        \* the running sum
    diff_map,           \* the diff map
    px_score            \* the returned pc, as an exact fraction [num, den]

VARIABLES
    \* ---- test_fonts / test_font_glyphs / test_font_words / test_words ----
    tf_pc,              \* position in the detector
    entry,              \* the function called: "test_fonts" or "test_words"
    font_a, font_b,     \* the two fonts: [cmap, ink]
    wordlist,           \* the lines of the word-list file, each split on ","
    hash_func,          \* "gid_pos_hash" or "gid_hash"
    glyphs,             \* the GlyphItems test_font_glyphs returned
    skip_glyphs,        \* the skip_glyphs list given to test_words
    scripts,            \* test_font_words: codepoints counted per script
    script_todo,        \* test_font_words: scripts.items() still to visit, in order
    cur_script,         \* the script whose word list test_words is reading
    line_i,             \* test_words: number of lines read so far
    seen_gids,          \* test_words: hash -> number of times recorded as changed
    res,                \* test_words: the set of (pc, WordDiff)
    tested,             \* history: the line numbers px_diff was called for in this run
    flagged,            \* history: the line numbers that added to res in this run
    tw_ret,             \* the list test_words returned last
    script_res          \* test_font_words: script -> returned list

VARIABLES
    \* ---- a Python set of WordDiff values ----
    wd_pc,              \* position: "first", "second", "done"
    wd_x, wd_y,         \* the two WordDiff values added, in this order
    wd_set              \* the elements the set holds

bw_vars == <<bw_pc, fps, allowed_chars, keep_chars, bw_i, bank, seen_keep_chars,
             unseen_keep_chars, unseen_count, reported_total, bw_res>>

px_vars == <<px_pc, img_a, img_b, px_k, diff_pixel, diff_pixels, diff_map, px_score>>

tf_vars == <<tf_pc, entry, font_a, font_b, wordlist, hash_func, glyphs, skip_glyphs,
             scripts, script_todo, cur_script, line_i, seen_gids, res, tested,
             flagged, tw_ret, script_res>>

wd_vars == <<wd_pc, wd_x, wd_y, wd_set>>

vars == <<bw_vars, px_vars, tf_vars, wd_vars>>

(***************************************************************************)
(* Bounds.                                                                 *)
(***************************************************************************)
MaxTokLen == 2
MaxTokens == 2
MaxWidth == 2
MaxLines == 2

(***************************************************************************)
(* Generic helpers.                                                        *)
(***************************************************************************)
Range(s) == {s[k] : k \in 1..Len(s)}

\* Python's `sub in word` for strings: sub occurs as a contiguous substring.
Contains(word, sub) ==
    \E k \in 0..(Len(word) - Len(sub)) : SubSeq(word, k + 1, k + Len(sub)) = sub

SeqsUpTo(S, n) == UNION {[1..k -> S] : k \in 0..n}

(***************************************************************************)
(* build_words / remove_substring_words.                                   *)
(***************************************************************************)
Quote == "'"
BuildAlphabet == {"a", "b", Quote}

\* line.split() yields non-empty tokens
Tokens == SeqsUpTo(BuildAlphabet, MaxTokLen) \ {<<>>}

\* word.replace("'", "")
RECURSIVE StripQuotes(_)
StripQuotes(word) ==
    IF word = <<>> THEN <<>>
    ELSE IF Head(word) = Quote THEN StripQuotes(Tail(word))
    ELSE <<Head(word)>> \o StripQuotes(Tail(word))

\* keep_chars and all(c in keep_chars for c in word)
Retained(kc, word) == kc # {} /\ \A c \in Range(word) : c \in kc

\* Automaton.add_word stores no empty key
AutoKeys(words) == {w \in words : Len(w) > 0}

\* Automaton.iter(word): the stored keys that occur in word
AutoIter(auto, word) == {found \in auto : Contains(word, found)}

\* Automaton.iter on an automaton that holds no key raises AttributeError
\* (pyahocorasick's make_automaton leaves an empty trie unconverted)
RemoveSubstringRaises(words) == words # {} /\ AutoKeys(words) = {}

\* lines 65-71 without the test of line 67
RemovedWordsNoSelfCheck(words) ==
    UNION {AutoIter(AutoKeys(words), word) : word \in words}

\* the `found`s that lines 65-71 remove from res
RemovedWords(words) ==
    UNION {{found \in AutoIter(AutoKeys(words), word) : word # found} : word \in words}

remove_substring_words(words) == words \ RemovedWords(words)

BwInit ==
    /\ bw_pc = "start"
    /\ fps \in SeqsUpTo(Tokens, MaxTokens)
    /\ allowed_chars \in SUBSET BuildAlphabet
    /\ keep_chars = allowed_chars
    /\ bw_i = 0
    /\ bank = {}
    /\ seen_keep_chars = {}
    /\ unseen_keep_chars = {}
    /\ unseen_count = 0
    /\ reported_total = 0
    /\ bw_res = {}

\* line 24-27
BuildWordsStart ==
    /\ bw_pc = "start"
    /\ keep_chars' = keep_chars \cup {Quote}
    /\ bw_pc' = "read"
    /\ UNCHANGED <<px_vars, tf_vars, wd_vars>>
    /\ UNCHANGED <<fps, allowed_chars, bw_i, bank, seen_keep_chars,
                   unseen_keep_chars, unseen_count, reported_total, bw_res>>

\* lines 34-39, the token passes the check
ReadWordKeep ==
    /\ bw_pc = "read"
    /\ bw_i < Len(fps)
    /\ LET word == StripQuotes(fps[bw_i + 1]) IN
        /\ Retained(keep_chars, word)
        /\ seen_keep_chars' = seen_keep_chars \cup Range(word)
        /\ bank' = bank \cup {word}
    /\ bw_i' = bw_i + 1
    /\ UNCHANGED <<px_vars, tf_vars, wd_vars>>
    /\ UNCHANGED <<bw_pc, fps, allowed_chars, keep_chars,
                   unseen_keep_chars, unseen_count, reported_total, bw_res>>

\* lines 34-36, the token fails the check
ReadWordDrop ==
    /\ bw_pc = "read"
    /\ bw_i < Len(fps)
    /\ ~Retained(keep_chars, StripQuotes(fps[bw_i + 1]))
    /\ bw_i' = bw_i + 1
    /\ UNCHANGED <<px_vars, tf_vars, wd_vars>>
    /\ UNCHANGED <<bw_pc, fps, allowed_chars, keep_chars, bank, seen_keep_chars,
                   unseen_keep_chars, unseen_count, reported_total, bw_res>>

\* lines 41-45
ReportUnseen ==
    /\ bw_pc = "read"
    /\ bw_i = Len(fps)
    /\ unseen_keep_chars' = keep_chars \ seen_keep_chars
    /\ unseen_count' = Cardinality(keep_chars \ seen_keep_chars)
    /\ reported_total' = Cardinality(keep_chars)
    /\ bw_pc' = "remove"
    /\ UNCHANGED <<px_vars, tf_vars, wd_vars>>
    /\ UNCHANGED <<fps, allowed_chars, keep_chars, bw_i, bank, seen_keep_chars, bw_res>>

\* lines 47-54
WriteWords ==
    /\ bw_pc = "remove"
    /\ ~RemoveSubstringRaises(bank)
    /\ bw_res' = remove_substring_words(bank)
    /\ bw_pc' = "done"
    /\ UNCHANGED <<px_vars, tf_vars, wd_vars>>
    /\ UNCHANGED <<fps, allowed_chars, keep_chars, bw_i, bank, seen_keep_chars,
                   unseen_keep_chars, unseen_count, reported_total>>

\* line 47: the exception of line 66 leaves build_words before the file is written
WriteWordsRaises ==
    /\ bw_pc = "remove"
    /\ RemoveSubstringRaises(bank)
    /\ bw_pc' = "error"
    /\ UNCHANGED <<px_vars, tf_vars, wd_vars>>
    /\ UNCHANGED <<fps, allowed_chars, keep_chars, bw_i, bank, seen_keep_chars,
                   unseen_keep_chars, unseen_count, reported_total, bw_res>>

BwIdle ==
    /\ bw_pc = "idle"
    /\ fps = <<>>
    /\ allowed_chars = {}
    /\ keep_chars = {}
    /\ bw_i = 0
    /\ bank = {}
    /\ seen_keep_chars = {}
    /\ unseen_keep_chars = {}
    /\ unseen_count = 0
    /\ reported_total = 0
    /\ bw_res = {}

BwNext ==
    \/ BuildWordsStart
    \/ ReadWordKeep
    \/ ReadWordDrop
    \/ ReportUnseen
    \/ WriteWords
    \/ WriteWordsRaises

(***************************************************************************)
(* px_diff, lines 334-360, on explicit images.  An image is a record       *)
(* [width, height, mode, px]: mode "L" has integer pixels, mode "RGBA" has *)
(* 4-tuples; px maps <<x, y>> to the pixel.  Both renders come from the    *)
(* same render_text, so they have the same mode.                           *)
(***************************************************************************)
Heights == 1..2
PixelsOf(mode) ==
    IF mode = "L" THEN {0, 3} ELSE {<<0, 0, 0, 0>>, <<1, 0, 2, 0>>}

Images(mode) ==
    UNION {UNION {[width : {w}, height : {h}, mode : {mode},
                   px : [(0..(w - 1)) \X (0..(h - 1)) -> PixelsOf(mode)]]
                  : h \in Heights} : w \in 0..MaxWidth}

Min(a, b) == IF a <= b THEN a ELSE b
Abs(n) == IF n < 0 THEN -n ELSE n

RECURSIVE SumSeq(_)
SumSeq(s) == IF s = <<>> THEN 0 ELSE Head(s) + SumSeq(Tail(s))

\* lines 334-335
PxWidth == Min(img_a.width, img_b.width)
PxHeight == Min(img_a.height, img_b.height)

\* lines 338-339: x is the outer loop, y the inner one
PxCoord(k) == <<k \div PxHeight, k % PxHeight>>

\* line 343: isinstance(px_a, int) and isinstance(px_b, int)
BothInt == img_a.mode = "L" /\ img_b.mode = "L"

\* lines 348-351, the four channel differences
ChannelSum(pa, pb) ==
    Abs(pa[1] - pb[1]) + Abs(pa[2] - pb[2]) + Abs(pa[3] - pb[3]) + Abs(pa[4] - pb[4])

\* lines 356-359: diff_pixels / (width * height * 256 * 4); ZeroDivisionError gives 0.
\* The quotient is kept as an exact fraction: the float division rounds it
\* correctly, so it compares with the float 0.000002 as the fraction does with
\* 2/1000000 for every image size a render can have.
Pc(dp, width, height) ==
    IF width * height * 256 * 4 = 0 THEN [num |-> 0, den |-> 1]
    ELSE [num |-> dp, den |-> width * height * 256 * 4]

PxInit ==
    /\ px_pc = "loop"
    /\ \E mode \in {"L", "RGBA"} : img_a \in Images(mode) /\ img_b \in Images(mode)
    /\ px_k = 0
    /\ diff_pixel = <<>>
    /\ diff_pixels = 0
    /\ diff_map = <<>>
    /\ px_score = [num |-> 0, den |-> 1]

PxIdle ==
    /\ px_pc = "idle"
    /\ img_a = [width |-> 0, height |-> 1, mode |-> "L", px |-> <<>>]
    /\ img_b = [width |-> 0, height |-> 1, mode |-> "L", px |-> <<>>]
    /\ px_k = 0
    /\ diff_pixel = <<>>
    /\ diff_pixels = 0
    /\ diff_map = <<>>
    /\ px_score = [num |-> 0, den |-> 1]

PxInLoop == px_pc = "loop" /\ px_k < PxWidth * PxHeight

\* lines 340-342, 354-355: equal pixels
PxEqual ==
    /\ PxInLoop
    /\ img_a.px[PxCoord(px_k)] = img_b.px[PxCoord(px_k)]
    /\ diff_map' = Append(diff_map, 0)
    /\ px_k' = px_k + 1
    /\ UNCHANGED <<px_pc, img_a, img_b, diff_pixel, diff_pixels, px_score>>
    /\ UNCHANGED <<bw_vars, tf_vars, wd_vars>>

\* lines 343-346: two differing single-channel pixels
PxDiffInt ==
    /\ PxInLoop
    /\ img_a.px[PxCoord(px_k)] # img_b.px[PxCoord(px_k)]
    /\ BothInt
    /\ LET d == Abs(img_a.px[PxCoord(px_k)] - img_b.px[PxCoord(px_k)]) IN
        /\ diff_pixel' = <<d>>
        /\ diff_pixels' = diff_pixels + d
        /\ diff_map' = Append(diff_map, d)
    /\ px_k' = px_k + 1
    /\ UNCHANGED <<px_pc, img_a, img_b, px_score>>
    /\ UNCHANGED <<bw_vars, tf_vars, wd_vars>>

\* lines 347-353: two differing multi-channel pixels.  `diff_pixel += ...` reads
\* the local before anything assigned it: UnboundLocalError.  Were it bound, the
\* four differences would be added to its previous value.
PxDiffTuple ==
    /\ PxInLoop
    /\ img_a.px[PxCoord(px_k)] # img_b.px[PxCoord(px_k)]
    /\ ~BothInt
    /\ IF diff_pixel = <<>>
       THEN /\ px_pc' = "error"
            /\ UNCHANGED <<px_k, diff_pixel, diff_pixels, diff_map>>
       ELSE LET d == diff_pixel[1]
                     + ChannelSum(img_a.px[PxCoord(px_k)], img_b.px[PxCoord(px_k)]) IN
            /\ diff_pixel' = <<d>>
            /\ diff_pixels' = diff_pixels + d
            /\ diff_map' = Append(diff_map, d)
            /\ px_k' = px_k + 1
            /\ UNCHANGED px_pc
    /\ UNCHANGED <<img_a, img_b, px_score>>
    /\ UNCHANGED <<bw_vars, tf_vars, wd_vars>>

\* lines 356-360
PxReturn ==
    /\ px_pc = "loop"
    /\ px_k = PxWidth * PxHeight
    /\ px_score' = Pc(diff_pixels, PxWidth, PxHeight)
    /\ px_pc' = "done"
    /\ UNCHANGED <<img_a, img_b, px_k, diff_pixel, diff_pixels, diff_map>>
    /\ UNCHANGED <<bw_vars, tf_vars, wd_vars>>

PxNext ==
    \/ PxEqual
    \/ PxDiffInt
    \/ PxDiffTuple
    \/ PxReturn

(***************************************************************************)
(* The detector: test_fonts, test_font_glyphs, test_font_words, test_words *)
(* (lines 155-300).  A character is its codepoint.  A font is a record     *)
(* [cmap, ink]: cmap is the set of codepoints of its best cmap, ink[c] the *)
(* amount of ink its render of c puts on the image.  The shaping engine,   *)
(* the renderer and the Unicode tables are outside the source; they are    *)
(* modelled by what the detector reads from them.                          *)
(***************************************************************************)
None == "<None>"

Letters == {97, 98}
Nameless == {57344}
LatinFill == 192..200
ArabFill == 1575..1583
GreekFill == 945..954
Fill == LatinFill \cup ArabFill \cup GreekFill
Codepoints == Letters \cup Nameless \cup Fill

\* unicodedata2.name(c) raises ValueError for a codepoint without a name
HasName(c) == c \notin Nameless
\* the name of c, as a string of one symbol; the empty string is <<>>
UniName(c) == <<c>>

\* youseedee.ucd_data(k)["Script"], a KeyError when there is none
HasScript(c) == c \notin Nameless
ScriptOf(c) ==
    IF c \in ArabFill THEN "Arabic" ELSE IF c \in GreekFill THEN "Greek" ELSE "Latin"

\* os.path.exists(data/wordlists/{script}.txt)
WordlistExists(script) == script = "Latin"

LetterSets == {{97}, {97, 98}, {97, 98, 57344}}

FontsA ==
    {[cmap |-> Fill \cup S, ink |-> [c \in Codepoints |-> 0]]
        : S \in LetterSets}

FontsB ==
    {[cmap |-> Fill \cup S,
      ink |-> [c \in Codepoints |-> IF c = 97 THEN i ELSE IF c = 98 THEN j ELSE 0]]
        : S \in LetterSets, i \in {0, 31, 32, 33}, j \in {0, 33}}

\* the lines a word-list file may hold, each already split on ","; read().split("\n")
\* gives at least one line, the empty one for an empty file
Lines ==
    {<<<<97>>>>,
     <<<<98>>, "latn">>,
     <<<<97, 98>>, "latn", "dflt">>,
     <<<<97, 98>>, "latn", "dflt", "kern">>,
     <<<<98, 97>>, "arab", "ARA">>,
     <<<<97, 57344>>>>,
     <<<<>>>>}

\* lines 78-87
OtToHtmlLang(script, lang) ==
    CASE script = None /\ lang = None -> "en"
      [] script = "latn" /\ lang = "dflt" -> "en"
      [] script = "arab" /\ lang = "ARA" -> "ar"
      [] script = "dev2" /\ lang = "HIN" -> "hi"
      [] script = "dev2" /\ lang = "MAR" -> "mr"
      [] script = "dev2" /\ lang = "NEP" -> "ne"
      [] script = "latn" /\ lang = "MOL" -> "mo"
      [] script = "cyrl" /\ lang = "SRB" -> "sr"
      [] OTHER -> None

\* line 89
ot_to_dir == (None :> "ltr") @@ ("arab" :> "rlt") @@ ("hebr" :> "rtl")

\* dict.get(key, default)
DictGet(d, key, default) == IF key \in DOMAIN d THEN d[key] ELSE default

\* line 295
DirectionOf(script) == DictGet(ot_to_dir, script, None)

\* the exact value of the literal 0.000002 (lines 180, 227)
Threshold == [num |-> 2, den |-> 1000000]

FracGt(p, q) == p.num * q.den > q.num * p.den
FracGe(p, q) == p.num * q.den >= q.num * p.den

\* line 180 with >= for >
GlyphModifiedInclusive(pc) == FracGe(pc, Threshold)

\* line 180: pc > 0.000002
GlyphModified(pc) == FracGt(pc, Threshold)

\* line 282 comparing with zero
WordChangedNoThreshold(pc, threshold) == FracGe(pc, [num |-> 0, den |-> 1])

\* line 282: pc >= threshold
WordChanged(pc, threshold) == FracGe(pc, threshold)

\* hb.shape: one record per output glyph, info.codepoint being the glyph id
\* (0 for a character the font does not map) and pos.position the tuple
\* (x_offset, y_offset, x_advance, y_advance); kerning shortens the advance.
\* The script and the language of the line select no other glyphs here.
Shape(font, word, features) ==
    [k \in 1..Len(word) |->
        [codepoint |-> IF word[k] \in font.cmap THEN word[k] ELSE 0,
         position |-> <<0, 0, IF "kern" \in Range(features) THEN 9 ELSE 10, 0>>]]

\* lines 155-156
gid_pos_hash(g) == [gid |-> g.codepoint, pos |-> g.position]

\* lines 159-160
gid_hash(g) == [gid |-> g.codepoint]

HashFunc(hf, g) == IF hf = "gid_pos_hash" THEN gid_pos_hash(g) ELSE gid_hash(g)

\* lines 260, 274: the hashes of a buffer, in order (each ends in "<br>", so the
\* joined string and the sequence determine each other)
Hashes(hf, buf) == [k \in 1..Len(buf) |-> HashFunc(hf, buf[k])]

\* px_diff (lines 303-360) on two single-channel renders of `string`: 125 x 125
\* pixels for a string with characters, no pixel for the empty string.  The sum
\* of the pixel differences is the ink the two fonts disagree on, glyph by
\* glyph; the diff map is kept per glyph.
InkDiffs(fa, fb, string) ==
    [k \in 1..Len(string) |-> Abs(fa.ink[string[k]] - fb.ink[string[k]])]

px_diff(fa, fb, string) ==
    [pc |-> Pc(SumSeq(InkDiffs(fa, fb, string)),
               IF string = <<>> THEN 0 ELSE 125, 125),
     diff_map |-> InkDiffs(fa, fb, string)]

Glyph(c) == [string |-> c, name |-> UniName(c), unicode |-> c]

GlyphDiff(c, name, pc, dm) ==
    [string |-> c, name |-> name, unicode |-> c, changed_pixels |-> pc, diff_map |-> dm]

WordDiff(string, hb_a, hb_b, ot_features, lang, direction, dm) ==
    [string |-> string, hb_a |-> hb_a, hb_b |-> hb_b, ot_features |-> ot_features,
     lang |-> lang, direction |-> direction, diff_map |-> dm]

\* lines 112-120: @dataclass writes __eq__, which compares the tuples of all the
\* fields, diff_map included
WordDiffEq(x, y) ==
    <<x.string, x.hb_a, x.hb_b, x.ot_features, x.lang, x.direction, x.diff_map>>
        = <<y.string, y.hb_a, y.hb_b, y.ot_features, y.lang, y.direction, y.diff_map>>

\* lines 122-123
WordDiffHash(x) == <<x.string, x.hb_a, x.hb_b, x.ot_features>>

\* set.add: the element is dropped when the set holds one of the same hash
\* that __eq__ calls equal
SetAdd(S, x) ==
    IF \E y \in S : WordDiffHash(y) = WordDiffHash(x) /\ WordDiffEq(y, x)
    THEN S ELSE S \cup {x}

\* line 286: res.add((pc, WordDiff(...))); tuples compare and hash by element
ResAdd(S, e) ==
    IF \E y \in S : /\ <<y[1], WordDiffHash(y[2])>> = <<e[1], WordDiffHash(e[2])>>
                     /\ y[1] = e[1] /\ WordDiffEq(y[2], e[2])
    THEN S ELSE S \cup {e}

\* the orders in which a set can be iterated
Orders(S) == {s \in [1..Cardinality(S) -> S] : Range(s) = S}

\* sorted(..., key=lambda k: k[0], reverse=True) on a sequence of <<key, item>>:
\* the sort is stable, equal keys keep the order they came in
RECURSIVE InsertReverse(_, _)
InsertReverse(x, t) ==
    IF t = <<>> THEN <<x>>
    ELSE IF FracGe(Head(t)[1], x[1]) THEN <<Head(t)>> \o InsertReverse(x, Tail(t))
    ELSE <<x>> \o t

RECURSIVE SortedReverse(_)
SortedReverse(s) ==
    IF s = <<>> THEN <<>>
    ELSE InsertReverse(s[Len(s)], SortedReverse(SubSeq(s, 1, Len(s) - 1)))

Items(s) == [k \in 1..Len(s) |-> s[k][2]]

\* sorted(S, key=lambda k: k.string) for glyphs of distinct characters
RECURSIVE SortedByString(_)
SortedByString(S) ==
    IF S = {} THEN <<>>
    ELSE LET m == CHOOSE g \in S : \A h \in S : g.string <= h.string
         IN  <<m>> \o SortedByString(S \ {m})

\* lines 171-175
MissingChars(fa, fb) == fa.cmap \ fb.cmap
NewChars(fa, fb) == fb.cmap \ fa.cmap
SameChars(fa, fb) == fa.cmap \cap fb.cmap

\* lines 173-174: uni.name(c) is called with no handler
GlyphNameRaises(fa, fb) ==
    \E c \in MissingChars(fa, fb) \cup NewChars(fa, fb) : ~HasName(c)

\* lines 178-186: the GlyphDiffs of the shared characters
ModifiedGlyphs(fa, fb) ==
    {GlyphDiff(g, IF HasName(g) THEN UniName(g) ELSE <<>>,
               px_diff(fa, fb, <<g>>).pc, px_diff(fa, fb, <<g>>).diff_map)
        : g \in {c \in SameChars(fa, fb) : GlyphModified(px_diff(fa, fb, <<c>>).pc)}}

\* line 187, from the order the loop of line 178 appended in
SortedModified(ord) ==
    Items(SortedReverse([k \in 1..Len(ord) |-> <<ord[k].changed_pixels, ord[k]>>]))

\* line 165 without glyphs.new
SkipGlyphsMissingOnly(g) == g.missing

\* line 165
TestFontsSkipGlyphs(g) == g.missing \o g.new

\* lines 200-207
ScriptCounts(cmap) ==
    [s \in {ScriptOf(c) : c \in {k \in cmap : HasScript(k)}} |->
        Cardinality({c \in cmap : HasScript(c) /\ ScriptOf(c) = s})]

\* scripts.items(): the scripts in the order the cmap first shows them, the
\* cmap being read by ascending codepoint
RECURSIVE ScriptOrder(_, _)
ScriptOrder(cmap, S) ==
    IF S = {} THEN <<>>
    ELSE LET first == CHOOSE s \in S : \A t \in S :
                        \E c \in cmap : /\ HasScript(c) /\ ScriptOf(c) = s
                                        /\ \A d \in cmap :
                                            (HasScript(d) /\ ScriptOf(d) = t) => c <= d
         IN  <<first>> \o ScriptOrder(cmap, S \ {first})

\* line 211
MinScriptCount == 10

\* lines 239-245: the fields of a line; items[2] raises IndexError when the line
\* has fewer than three fields
ParseLine(items) ==
    IF Len(items) >= 3
    THEN [word |-> items[1], script |-> items[2], lang |-> items[3],
          features |-> SubSeq(items, 4, Len(items))]
    ELSE [word |-> items[1], script |-> None, lang |-> None, features |-> <<>>]

\* line 245 and tuple(features.keys()): each feature once, in order of first use
RECURSIVE FeatureKeys(_)
FeatureKeys(features) ==
    IF features = <<>> THEN <<>>
    ELSE LET front == FeatureKeys(SubSeq(features, 1, Len(features) - 1))
             last == features[Len(features)]
         IN  IF last \in Range(front) THEN front ELSE Append(front, last)

\* line 246: any(c.string in word for c in skip_glyphs)
HasSkipGlyph(word, skip) == \E k \in 1..Len(skip) : Contains(word, <<skip[k].string>>)

\* defaultdict(int) lookup
SeenCount(seen, h) == IF h \in DOMAIN seen THEN seen[h] ELSE 0

\* line 277 with >= 2 for >= 1
AllSeenTwice(seen, hs) == \A k \in 1..Len(hs) : SeenCount(seen, hs[k]) >= 2

\* line 277
AllSeen(seen, hs) == \A k \in 1..Len(hs) : SeenCount(seen, hs[k]) >= 1

\* lines 283-285
RECURSIVE MarkSeen(_, _)
MarkSeen(seen, hs) ==
    IF hs = <<>> THEN seen
    ELSE MarkSeen([h \in DOMAIN seen \cup {Head(hs)} |->
                      IF h = Head(hs) THEN SeenCount(seen, h) + 1 ELSE seen[h]],
                  Tail(hs))

EmptyMap == [s \in {} |-> <<>>]
EmptyGlyphItems == [missing |-> <<>>, new |-> <<>>, modified |-> <<>>]

TfInit ==
    /\ entry \in {"test_fonts", "test_words"}
    /\ font_a \in FontsA
    /\ font_b \in FontsB
    /\ wordlist \in SeqsUpTo(Lines, MaxLines) \ {<<>>}
    /\ hash_func \in (IF entry = "test_fonts" THEN {"gid_pos_hash"}
                      ELSE {"gid_pos_hash", "gid_hash"})
    /\ tf_pc = (IF entry = "test_fonts" THEN "glyphs" ELSE "words")
    /\ glyphs = EmptyGlyphItems
    /\ skip_glyphs = <<>>
    /\ scripts = EmptyMap
    /\ script_todo = <<>>
    /\ cur_script = None
    /\ line_i = 0
    /\ seen_gids = EmptyMap
    /\ res = {}
    /\ tested = {}
    /\ flagged = {}
    /\ tw_ret = <<>>
    /\ script_res = EmptyMap

TfIdle ==
    /\ entry = "idle"
    /\ tf_pc = "idle"
    /\ font_a = [cmap |-> {}, ink |-> EmptyMap]
    /\ font_b = [cmap |-> {}, ink |-> EmptyMap]
    /\ wordlist = <<>>
    /\ hash_func = "gid_pos_hash"
    /\ glyphs = EmptyGlyphItems
    /\ skip_glyphs = <<>>
    /\ scripts = EmptyMap
    /\ script_todo = <<>>
    /\ cur_script = None
    /\ line_i = 0
    /\ seen_gids = EmptyMap
    /\ res = {}
    /\ tested = {}
    /\ flagged = {}
    /\ tw_ret = <<>>
    /\ script_res = EmptyMap

\* lines 170-193, every name found
TestFontGlyphs ==
    /\ tf_pc = "glyphs"
    /\ ~GlyphNameRaises(font_a, font_b)
    /\ \E ord \in Orders(ModifiedGlyphs(font_a, font_b)) :
        glyphs' = [missing |-> SortedByString({Glyph(c) : c \in MissingChars(font_a, font_b)}),
                   new |-> SortedByString({Glyph(c) : c \in NewChars(font_a, font_b)}),
                   modified |-> SortedModified(ord)]
    /\ tf_pc' = "font_words"
    /\ UNCHANGED <<entry, font_a, font_b, wordlist, hash_func, skip_glyphs, scripts,
                   script_todo, cur_script, line_i, seen_gids, res, tested, flagged, tw_ret, script_res>>
    /\ UNCHANGED <<bw_vars, px_vars, wd_vars>>

\* lines 173-174: ValueError leaves test_font_glyphs and test_fonts
TestFontGlyphsRaises ==
    /\ tf_pc = "glyphs"
    /\ GlyphNameRaises(font_a, font_b)
    /\ tf_pc' = "error"
    /\ UNCHANGED <<entry, font_a, font_b, wordlist, hash_func, glyphs, skip_glyphs, scripts,
                   script_todo, cur_script, line_i, seen_gids, res, tested, flagged, tw_ret, script_res>>
    /\ UNCHANGED <<bw_vars, px_vars, wd_vars>>

\* lines 165-166, 200-209
TestFontWords ==
    /\ tf_pc = "font_words"
    /\ skip_glyphs' = TestFontsSkipGlyphs(glyphs)
    /\ scripts' = ScriptCounts(font_a.cmap)
    /\ script_todo' = ScriptOrder(font_a.cmap, DOMAIN ScriptCounts(font_a.cmap))
    /\ script_res' = EmptyMap
    /\ tf_pc' = "scripts"
    /\ UNCHANGED <<entry, font_a, font_b, wordlist, hash_func, glyphs,
                   cur_script, line_i, seen_gids, res, tested, flagged, tw_ret>>
    /\ UNCHANGED <<bw_vars, px_vars, wd_vars>>

\* lines 210-212
ScriptTooSmall ==
    /\ tf_pc = "scripts"
    /\ script_todo # <<>>
    /\ scripts[Head(script_todo)] < MinScriptCount
    /\ script_todo' = Tail(script_todo)
    /\ UNCHANGED <<tf_pc, entry, font_a, font_b, wordlist, hash_func, glyphs, skip_glyphs,
                   scripts, cur_script, line_i, seen_gids, res, tested, flagged, tw_ret, script_res>>
    /\ UNCHANGED <<bw_vars, px_vars, wd_vars>>

\* lines 213-216
ScriptNoWordlist ==
    /\ tf_pc = "scripts"
    /\ script_todo # <<>>
    /\ scripts[Head(script_todo)] >= MinScriptCount
    /\ ~WordlistExists(Head(script_todo))
    /\ script_todo' = Tail(script_todo)
    /\ UNCHANGED <<tf_pc, entry, font_a, font_b, wordlist, hash_func, glyphs, skip_glyphs,
                   scripts, cur_script, line_i, seen_gids, res, tested, flagged, tw_ret, script_res>>
    /\ UNCHANGED <<bw_vars, px_vars, wd_vars>>

\* line 217 calling test_words, lines 229-236
ScriptTestWords ==
    /\ tf_pc = "scripts"
    /\ script_todo # <<>>
    /\ scripts[Head(script_todo)] >= MinScriptCount
    /\ WordlistExists(Head(script_todo))
    /\ cur_script' = Head(script_todo)
    /\ script_todo' = Tail(script_todo)
    /\ line_i' = 0
    /\ seen_gids' = EmptyMap
    /\ res' = {}
    /\ tested' = {}
    /\ flagged' = {}
    /\ tf_pc' = "words"
    /\ UNCHANGED <<entry, font_a, font_b, wordlist, hash_func, glyphs, skip_glyphs,
                   scripts, tw_ret, script_res>>
    /\ UNCHANGED <<bw_vars, px_vars, wd_vars>>

\* line 218, then line 167
TestFontWordsReturn ==
    /\ tf_pc = "scripts"
    /\ script_todo = <<>>
    /\ tf_pc' = "done"
    /\ UNCHANGED <<entry, font_a, font_b, wordlist, hash_func, glyphs, skip_glyphs, scripts,
                   script_todo, cur_script, line_i, seen_gids, res, tested, flagged, tw_ret, script_res>>
    /\ UNCHANGED <<bw_vars, px_vars, wd_vars>>

InWordLoop == tf_pc = "words" /\ line_i < Len(wordlist)

\* the line test_words is about to read
CurLine == ParseLine(wordlist[line_i + 1])
CurFeatures == FeatureKeys(CurLine.features)
CurBufA == Shape(font_a, CurLine.word, CurFeatures)
CurBufB == Shape(font_b, CurLine.word, CurFeatures)
CurPx == px_diff(font_a, font_b, CurLine.word)

\* lines 246-247
WordSkipGlyph ==
    /\ InWordLoop
    /\ HasSkipGlyph(CurLine.word, skip_glyphs)
    /\ line_i' = line_i + 1
    /\ UNCHANGED <<tf_pc, entry, font_a, font_b, wordlist, hash_func, glyphs, skip_glyphs,
                   scripts, script_todo, cur_script, seen_gids, res, tested, flagged, tw_ret, script_res>>
    /\ UNCHANGED <<bw_vars, px_vars, wd_vars>>

\* lines 249-278
WordSkipSeen ==
    /\ InWordLoop
    /\ ~HasSkipGlyph(CurLine.word, skip_glyphs)
    /\ AllSeen(seen_gids, Hashes(hash_func, CurBufB))
    /\ line_i' = line_i + 1
    /\ UNCHANGED <<tf_pc, entry, font_a, font_b, wordlist, hash_func, glyphs, skip_glyphs,
                   scripts, script_todo, cur_script, seen_gids, res, tested, flagged, tw_ret, script_res>>
    /\ UNCHANGED <<bw_vars, px_vars, wd_vars>>

\* lines 279-282, the score is under the threshold
WordBelow ==
    /\ InWordLoop
    /\ ~HasSkipGlyph(CurLine.word, skip_glyphs)
    /\ ~AllSeen(seen_gids, Hashes(hash_func, CurBufB))
    /\ ~WordChanged(CurPx.pc, Threshold)
    /\ tested' = tested \cup {line_i + 1}
    /\ line_i' = line_i + 1
    /\ UNCHANGED <<tf_pc, entry, font_a, font_b, wordlist, hash_func, glyphs, skip_glyphs,
                   scripts, script_todo, cur_script, seen_gids, res, flagged, tw_ret, script_res>>
    /\ UNCHANGED <<bw_vars, px_vars, wd_vars>>

\* lines 279-299
WordEmit ==
    /\ InWordLoop
    /\ ~HasSkipGlyph(CurLine.word, skip_glyphs)
    /\ ~AllSeen(seen_gids, Hashes(hash_func, CurBufB))
    /\ WordChanged(CurPx.pc, Threshold)
    /\ seen_gids' = MarkSeen(seen_gids, Hashes(hash_func, CurBufB))
    /\ res' = ResAdd(res,
           <<CurPx.pc,
             WordDiff(CurLine.word, Hashes(hash_func, CurBufA), Hashes(hash_func, CurBufB),
                      CurFeatures, OtToHtmlLang(CurLine.script, CurLine.lang),
                      DirectionOf(CurLine.script), CurPx.diff_map)>>)
    /\ tested' = tested \cup {line_i + 1}
    /\ flagged' = flagged \cup {line_i + 1}
    /\ line_i' = line_i + 1
    /\ UNCHANGED <<tf_pc, entry, font_a, font_b, wordlist, hash_func, glyphs, skip_glyphs,
                   scripts, script_todo, cur_script, tw_ret, script_res>>
    /\ UNCHANGED <<bw_vars, px_vars, wd_vars>>

\* line 300: the sorted list, from the order in which the set res is iterated;
\* the order of a set of tuples holding strings follows the string hashes, which
\* change from one interpreter process to the next
TestWordsReturn ==
    /\ tf_pc = "words"
    /\ line_i = Len(wordlist)
    /\ \E ord \in Orders(res) : tw_ret' = Items(SortedReverse(ord))
    /\ IF entry = "test_fonts"
       THEN /\ script_res' = [s \in DOMAIN script_res \cup {cur_script} |->
                            IF s = cur_script THEN tw_ret' ELSE script_res[s]]
            /\ tf_pc' = "scripts"
       ELSE /\ script_res' = script_res
            /\ tf_pc' = "done"
    /\ UNCHANGED <<entry, font_a, font_b, wordlist, hash_func, glyphs, skip_glyphs, scripts,
                   script_todo, cur_script, line_i, seen_gids, res, tested, flagged>>
    /\ UNCHANGED <<bw_vars, px_vars, wd_vars>>

TfNext ==
    \/ TestFontGlyphs
    \/ TestFontGlyphsRaises
    \/ TestFontWords
    \/ ScriptTooSmall
    \/ ScriptNoWordlist
    \/ ScriptTestWords
    \/ TestFontWordsReturn
    \/ WordSkipGlyph
    \/ WordSkipSeen
    \/ WordBelow
    \/ WordEmit
    \/ TestWordsReturn

(***************************************************************************)
(* WordDiff values in a set (lines 112-123, 286): two WordDiffs, as        *)
(* test_words builds them, are added to an empty set one after the other.  *)
(***************************************************************************)
WordDiffsOf(word) ==
    {WordDiff(word,
              Hashes("gid_pos_hash", Shape([cmap |-> ca], word, f)),
              Hashes("gid_pos_hash", Shape([cmap |-> cb], word, f)),
              f, OtToHtmlLang(None, None), DirectionOf(None), dm)
        : ca \in {{97}, {97, 98}}, cb \in {{97}, {97, 98}},
          f \in {<<>>, <<"kern">>}, dm \in [1..Len(word) -> {0, 33}]}

WordDiffValues == WordDiffsOf(<<97>>) \cup WordDiffsOf(<<97, 98>>)

WdInit ==
    /\ wd_pc = "first"
    /\ wd_x \in WordDiffValues
    /\ wd_y \in WordDiffValues
    /\ wd_set = {}

WdIdle ==
    /\ wd_pc = "idle"
    /\ wd_x = WordDiff(<<>>, <<>>, <<>>, <<>>, None, None, <<>>)
    /\ wd_y = WordDiff(<<>>, <<>>, <<>>, <<>>, None, None, <<>>)
    /\ wd_set = {}

\* set.add of the first value
AddFirst ==
    /\ wd_pc = "first"
    /\ wd_set' = SetAdd(wd_set, wd_x)
    /\ wd_pc' = "second"
    /\ UNCHANGED <<wd_x, wd_y>>
    /\ UNCHANGED <<bw_vars, px_vars, tf_vars>>

\* set.add of the second value, which the set takes as a new element
AddSecondNew ==
    /\ wd_pc = "second"
    /\ SetAdd(wd_set, wd_y) # wd_set
    /\ wd_set' = SetAdd(wd_set, wd_y)
    /\ wd_pc' = "done"
    /\ UNCHANGED <<wd_x, wd_y>>
    /\ UNCHANGED <<bw_vars, px_vars, tf_vars>>

\* set.add of the second value, which the set already holds
AddSecondHeld ==
    /\ wd_pc = "second"
    /\ SetAdd(wd_set, wd_y) = wd_set
    /\ wd_pc' = "done"
    /\ UNCHANGED <<wd_x, wd_y, wd_set>>
    /\ UNCHANGED <<bw_vars, px_vars, tf_vars>>

WdNext ==
    \/ AddFirst
    \/ AddSecondNew
    \/ AddSecondHeld

InitWords == BwInit /\ PxIdle /\ TfIdle /\ WdIdle

SpecWords == InitWords /\ [][BwNext]_vars

InitPx == PxInit /\ BwIdle /\ TfIdle /\ WdIdle

SpecPx == InitPx /\ [][PxNext]_vars

InitFonts == TfInit /\ BwIdle /\ PxIdle /\ WdIdle

SpecFonts == InitFonts /\ [][TfNext]_vars

InitWordDiffSet == WdInit /\ BwIdle /\ PxIdle /\ TfIdle

SpecWordDiffSet == InitWordDiffSet /\ [][WdNext]_vars

(***************************************************************************)
(* Properties of build_words, checked under SpecWords.                     *)
(***************************************************************************)

\* C3: when build_words completes, its output holds no two distinct words
\* u and v with u a contiguous substring of v; the empty string counts.
C3_SubstringMinimal ==
    bw_pc = "done" =>
        \A u \in bw_res : \A v \in bw_res : u # v => ~Contains(v, u)

\* a token of the input that holds c
InputWordWith(c) == \E k \in 1..Len(fps) : c \in Range(fps[k])

\* a token of the input that holds c and that, its quotes removed, has only
\* characters of allowed_chars
RetainedWordWith(c) ==
    \E k \in 1..Len(fps) :
        /\ c \in Range(StripQuotes(fps[k]))
        /\ \A d \in Range(StripQuotes(fps[k])) : d \in allowed_chars

OutputWordWith(c) == \E w \in bw_res : c \in Range(w)

\* C4 as stated: every character of allowed_chars that appears in some
\* whitespace-delimited word of the input appears in some word of the output.
C4_CoversInputWords ==
    bw_pc = "done" =>
        \A c \in allowed_chars : InputWordWith(c) => OutputWordWith(c)

\* C4, amended: every character of allowed_chars that appears in some input
\* word which, its quotes removed, consists of allowed characters only,
\* appears in some word of the output.
C4_CoversRetainedWords ==
    bw_pc = "done" =>
        \A c \in allowed_chars : RetainedWordWith(c) => OutputWordWith(c)

\* C4 witness: a completed run that dropped a substring word and still covers
\* a character of a retained word.
C4_Witness ==
    /\ bw_pc = "done"
    /\ bw_res # bank
    /\ \E c \in allowed_chars : RetainedWordWith(c) /\ OutputWordWith(c)

(***************************************************************************)
(* Properties of px_diff, checked under SpecPx.                            *)
(***************************************************************************)

\* the magnitude the two pixels at the k-th visited place should give
Magnitude(k) ==
    LET pa == img_a.px[PxCoord(k)]
        pb == img_b.px[PxCoord(k)]
    IN  IF BothInt THEN Abs(pa - pb) ELSE ChannelSum(pa, pb)

\* C8: px_diff completes on every pair of images; each visited pixel appends
\* |a-b| (single channel) or the sum of the four channel differences (four
\* channels) whatever was visited before; at the end the map has width*height
\* entries and the numerator of the score is the sum of the map.
C8_PixelMagnitudes ==
    /\ px_pc # "error"
    /\ \A k \in 1..Len(diff_map) : diff_map[k] = Magnitude(k - 1)
    /\ px_pc = "done" =>
        /\ Len(diff_map) = PxWidth * PxHeight
        /\ px_score.num = SumSeq(diff_map)

(***************************************************************************)
(* Properties of the detector, checked under SpecFonts.                    *)
(***************************************************************************)

\* c is in exactly one of the two best cmaps
OneFontOnly(c) == (c \in font_a.cmap) # (c \in font_b.cmap)

\* C1: in a test_fonts run no WordDiff of any script's result has a string
\* with a character that only one font maps, and no GlyphDiff of `modified`
\* is for such a character.
C1_NoOneFontCodepointReported ==
    entry = "test_fonts" =>
        /\ \A s \in DOMAIN script_res : \A k \in 1..Len(script_res[s]) :
              \A c \in Range(script_res[s][k].string) : ~OneFontOnly(c)
        /\ \A e \in res : \A c \in Range(e[2].string) : ~OneFontOnly(c)
        /\ \A k \in 1..Len(glyphs.modified) : ~OneFontOnly(glyphs.modified[k].string)

\* C1 witness: test_fonts finished, the word list had a word with a character
\* of one font only, and another word was reported.
C1_Witness ==
    /\ entry = "test_fonts"
    /\ tf_pc = "done"
    /\ \E k \in 1..Len(wordlist) : \E c \in Range(wordlist[k][1]) : OneFontOnly(c)
    /\ \E s \in DOMAIN script_res : script_res[s] # <<>>

\* the glyph ids font B gives the word of line j, and their hashes
LineBufB(j) ==
    Shape(font_b, ParseLine(wordlist[j]).word, FeatureKeys(ParseLine(wordlist[j]).features))
LineGidsB(j) == [k \in 1..Len(LineBufB(j)) |-> LineBufB(j)[k].codepoint]
LineHashesB(j) == Hashes(hash_func, LineBufB(j))

\* C2 as stated: once a line was flagged, no later line whose word font B
\* shapes to the same glyph-id sequence is added to the result.
C2_SameGidsSuppressed ==
    \A i \in flagged : \A j \in (i + 1)..line_i :
        LineGidsB(j) = LineGidsB(i) => j \notin flagged

\* C2, amended: once a line was flagged, no later line whose word font B
\* shapes to the same sequence of glyph identities under the configured hash
\* function (glyph id and position, or glyph id alone) is added to the result.
C2_SameHashesSuppressed ==
    \A i \in flagged : \A j \in (i + 1)..line_i :
        LineHashesB(j) = LineHashesB(i) => j \notin flagged

\* C2 witness: under the glyph-id-only hash, a flagged line was followed by a
\* different line of the same glyph ids that reached the deduplication check.
C2_Witness ==
    /\ hash_func = "gid_hash"
    /\ \E i \in flagged : \E j \in (i + 1)..line_i :
          /\ wordlist[j] # wordlist[i]
          /\ LineHashesB(j) = LineHashesB(i)
          /\ ~HasSkipGlyph(ParseLine(wordlist[j]).word, skip_glyphs)

\* test_fonts ran to its end on two fonts that are the same
IdenticalFontsDone == entry = "test_fonts" /\ tf_pc = "done" /\ font_a = font_b

\* C5 as stated: identical fonts give empty missing, new and modified, and a
\* mapping without any script key.
C5_IdenticalFontsNoKeys ==
    IdenticalFontsDone => glyphs = EmptyGlyphItems /\ DOMAIN script_res = {}

\* C5, amended: identical fonts give empty missing, new and modified, and a
\* mapping that has a key for every script of font A with at least ten
\* codepoints and a word list, each with an empty sequence.
C5_IdenticalFontsEmptyLists ==
    IdenticalFontsDone =>
        /\ glyphs = EmptyGlyphItems
        /\ DOMAIN script_res =
              {s \in DOMAIN scripts : scripts[s] >= 10 /\ WordlistExists(s)}
        /\ \A s \in DOMAIN script_res : script_res[s] = <<>>

\* C5 witness: identical fonts, a word list with a word in it, a script key.
C5_Witness ==
    /\ IdenticalFontsDone
    /\ \E k \in 1..Len(wordlist) : wordlist[k][1] # <<>>
    /\ DOMAIN script_res # {}

\* C6: test_font_glyphs never fails on a codepoint without a name; such a
\* codepoint in missing, new or modified has the empty name.
C6_NameLookupNeverFatal ==
    entry = "test_fonts" =>
        /\ tf_pc # "error"
        /\ \A l \in {glyphs.missing, glyphs.new, glyphs.modified} :
              \A k \in 1..Len(l) : ~HasName(l[k].string) => l[k].name = <<>>

\* C7: every WordDiff has direction "ltr" or "rtl".
C7_DirectionLtrOrRtl ==
    \A e \in res : e[2].direction \in {"ltr", "rtl"}

\* the pc of a WordDiff of res
PcOfWordDiff(wd) == (CHOOSE e \in res : e[2] = wd)[1]

\* test_words has returned tw_ret for the set res
TestWordsReturned ==
    \/ entry = "test_words" /\ tf_pc = "done"
    \/ entry = "test_fonts" /\ tf_pc \in {"scripts", "done"} /\ cur_script \in DOMAIN script_res

\* C9: the returned sequence is ordered by non-increasing percentage and is
\* the one sequence every run on this input returns, ties included.
C9_SortedAndDeterministic ==
    TestWordsReturned =>
        /\ \A k \in 1..(Len(tw_ret) - 1) :
              FracGe(PcOfWordDiff(tw_ret[k]), PcOfWordDiff(tw_ret[k + 1]))
        /\ \A ord \in Orders(res) : Items(SortedReverse(ord)) = tw_ret

\* the score of the string, against the threshold 2e-6 = 2/1000000
ScoreAbove(string) ==
    px_diff(font_a, font_b, string).pc.num * 1000000
        > 2 * px_diff(font_a, font_b, string).pc.den
ScoreEqual(string) ==
    px_diff(font_a, font_b, string).pc.num * 1000000
        = 2 * px_diff(font_a, font_b, string).pc.den

InModified(c) == \E k \in 1..Len(glyphs.modified) : glyphs.modified[k].string = c

\* C10: a word whose score is above or exactly at the threshold is emitted and
\* one below is not; a shared glyph whose score is above the threshold is
\* emitted and one exactly at it or below is not.
C10_ThresholdBoundary ==
    /\ \A j \in tested :
          j \in flagged <=> (ScoreAbove(ParseLine(wordlist[j]).word)
                             \/ ScoreEqual(ParseLine(wordlist[j]).word))
    /\ (entry = "test_fonts" /\ tf_pc \notin {"glyphs", "error"}) =>
          \A c \in SameChars(font_a, font_b) : InModified(c) <=> ScoreAbove(<<c>>)

\* C10 witness: a word exactly at the threshold was emitted while the shared
\* glyph exactly at the threshold was not.
C10_Witness ==
    /\ entry = "test_fonts"
    /\ \E j \in flagged : ScoreEqual(ParseLine(wordlist[j]).word)
    /\ \E c \in SameChars(font_a, font_b) : ScoreEqual(<<c>>) /\ ~InModified(c)

(***************************************************************************)
(* Properties of WordDiff, checked under SpecWordDiffSet.                  *)
(***************************************************************************)

\* the two values agree on string, both signatures and the feature tuple
SameIdentity(x, y) ==
    /\ x.string = y.string
    /\ x.hb_a = y.hb_a
    /\ x.hb_b = y.hb_b
    /\ x.ot_features = y.ot_features

\* C11: two WordDiffs with the same string, signatures and features are equal
\* and hash equally whatever their diff maps, so a set they are both added
\* to holds one element.
C11_SameIdentityCollapses ==
    (wd_pc = "done" /\ SameIdentity(wd_x, wd_y)) =>
        /\ WordDiffHash(wd_x) = WordDiffHash(wd_y)
        /\ WordDiffEq(wd_x, wd_y)
        /\ Cardinality(wd_set) = 1

(***************************************************************************)
(* Properties of the word-list line parse, checked under SpecFonts.        *)
(***************************************************************************)

\* the fields a line carries, a missing trailing field read as absent
PresentFields(items) ==
    [word |-> items[1],
     script |-> IF Len(items) >= 2 THEN items[2] ELSE None,
     lang |-> IF Len(items) >= 3 THEN items[3] ELSE None,
     features |-> IF Len(items) >= 4 THEN SubSeq(items, 4, Len(items)) ELSE <<>>]

\* C12: every line that was shaped was shaped with the fields it carries
\* (script, lang and features, each absent only when the line lacks it), and
\* every finding was rendered with the language and direction of those fields.
C12_PresentFieldsUsed ==
    /\ \A j \in tested : ParseLine(wordlist[j]) = PresentFields(wordlist[j])
    /\ \A j \in flagged :
          LET f == PresentFields(wordlist[j])
          IN  \E e \in res :
                 /\ e[2].string = f.word
                 /\ e[2].ot_features = FeatureKeys(f.features)
                 /\ e[2].lang = OtToHtmlLang(f.script, f.lang)
                 /\ e[2].direction = DirectionOf(f.script)

(***************************************************************************)
(* Properties of the build_words diagnostics, checked under SpecWords.     *)
(***************************************************************************)

\* the characters of the caller's set that no retained word holds
UnseenAllowed == {c \in allowed_chars : ~RetainedWordWith(c)}

\* C13: once the diagnostics are reported, the unseen subset is the set of
\* characters of the caller's allowed_chars found in no retained word, the
\* reported total is the size of the caller's allowed_chars, and the caller's
\* set (the object keep_chars names) still equals what was passed in.
C13_QuoteOnlyForRetention ==
    bw_pc \in {"remove", "done", "error"} =>
        /\ unseen_keep_chars = UnseenAllowed
        /\ reported_total = Cardinality(allowed_chars)
        /\ keep_chars = allowed_chars

====
